---------------------------- MODULE Spec2Model ----------------------------
(***************************************************************************)
(* Model of seller.py: synchronisation of stock and price data between a   *)
(* supplier's remnants file and the marketplace seller API.                *)
(*                                                                         *)
(* Conventions of the model.                                               *)
(*  - An offer id (a string in the program) is written as a natural number *)
(*    naming it; the product code of a remnant record is written by the    *)
(*    number naming str(watch.get("Kod")).                                 *)
(*  - The quantity and price cells of a remnant record are strings, kept   *)
(*    as sequences of one-character strings so that int() and              *)
(*    price_conversion are computed character by character.  The Cyrillic  *)
(*    letters of a price ("rub") are written in Latin.                     *)
(*  - The three dictionary keys read from a remnant record (code,         *)
(*    quantity, price) are the record fields Kod, Kolichestvo, Tsena.      *)
(***************************************************************************)
EXTENDS Integers, Sequences, FiniteSets, TLC

VARIABLES
    entry,           \* the function the run executes
    pc,              \* position of the run
    catalogue,       \* the marketplace: [n, m], the products it lists
    ostatki,         \* the supplier: [shape, n], the rows of ostatki.xls
    last_id,         \* get_offer_ids: cursor of the next page request
    product_list,    \* get_offer_ids: items accumulated so far
    total,           \* get_offer_ids: total of the latest response
    request,         \* the product-list request in flight, or NoRequest
    watch_remnants,  \* the parsed remnant records
    offer_ids,       \* the known offer-id list (one list object, mutated in place)
    stocks,          \* result of create_stocks
    prices,          \* result of create_prices
    chunks,          \* list(divide(...)) not yet sent
    calls,           \* every marketplace call issued so far, with its outcome
    failure,         \* the exception raised by a step, or NoFailure
    printed,         \* what main printed in its except clause
    lst,             \* divide harness: the list
    n,               \* divide harness: the chunk size
    results          \* harness: the values returned by the successive calls

vars == <<entry, pc, catalogue, ostatki, last_id, product_list, total,
          request, watch_remnants, offer_ids, stocks, prices, chunks, calls, failure,
          printed, lst, n, results>>

-----------------------------------------------------------------------------
(* Bounds of the model *)

MaxRecords == 2      \* longest records list of the reconciler harness
MaxDivideLen == 7    \* longest list of the divide harness
MaxN == 4            \* largest chunk size of the divide harness
MaxShortFeed == 3    \* largest catalogue whose pages may have any length

(* Program constants *)

PageLimit == 1000        \* "limit": 1000 of get_product_list
StockChunkOver == 100 + 1   \* mutant of StockChunk: one entry too many
StockChunk == 100        \* divide(stocks, 100)
MainPriceChunk == 900    \* divide(prices, 900) of main
PriceChunk == 1000       \* divide(prices, 1000) of upload_prices
Over10Stock == 100       \* stock = 100 for ">10"

-----------------------------------------------------------------------------
(* Helpers on sequences *)

Min(a, b) == IF a < b THEN a ELSE b

\* x in lst
In(x, s) == \E i \in 1..Len(s) : s[i] = x

\* Python lst[i:j] for 0 <= i, i <= j
Slice(s, i, j) == SubSeq(s, i + 1, Min(j, Len(s)))

\* index of the first occurrence of x in s (x occurs in s)
IndexOf(x, s) == CHOOSE i \in 1..Len(s) : s[i] = x /\ \A j \in 1..(i - 1) : s[j] # x

\* the list after list.remove(x): the first occurrence of x is removed
Remove(s, x) ==
    LET k == IndexOf(x, s)
    IN  SubSeq(s, 1, k - 1) \o SubSeq(s, k + 1, Len(s))

-----------------------------------------------------------------------------
(* Strings as sequences of characters *)

Digits == {"0", "1", "2", "3", "4", "5", "6", "7", "8", "9"}

DigitVal(c) ==
    CASE c = "0" -> 0 [] c = "1" -> 1 [] c = "2" -> 2 [] c = "3" -> 3
      [] c = "4" -> 4 [] c = "5" -> 5 [] c = "6" -> 6 [] c = "7" -> 7
      [] c = "8" -> 8 [] c = "9" -> 9

RECURSIVE DigitsVal(_)
DigitsVal(s) ==
    IF s = <<>> THEN 0
    ELSE 10 * DigitsVal(SubSeq(s, 1, Len(s) - 1)) + DigitVal(s[Len(s)])

AllDigits(s) == s # <<>> /\ \A i \in 1..Len(s) : s[i] \in Digits

\* int(s) succeeds: an optional sign followed by digits
IsIntLiteral(s) ==
    /\ s # <<>>
    /\ IF s[1] \in {"-", "+"} THEN AllDigits(Tail(s)) ELSE AllDigits(s)

\* int(s) for a string on which it succeeds
ParseInt(s) ==
    IF s[1] = "-" THEN 0 - DigitsVal(Tail(s))
    ELSE IF s[1] = "+" THEN DigitsVal(Tail(s))
    ELSE DigitsVal(s)

\* price.split(".")[0]: the text before the first "."
SplitDotFirst(s) ==
    IF In(".", s) THEN SubSeq(s, 1, IndexOf(".", s) - 1) ELSE s

\* re.sub("[^0-9]", "", text)
StripNonDigits(s) == SelectSeq(s, LAMBDA c : c \in Digits)

price_conversion(price) == StripNonDigits(SplitDotFirst(price))

-----------------------------------------------------------------------------
(* The reconciler *)

GT10 == <<">", "1", "0">>
ONE == <<"1">>

\* mutant of StockOf: the branch for exactly "1" is missing
StockOfNoOne(count) ==
    IF count = GT10 THEN Over10Stock ELSE ParseInt(count)

\* the stock appended for a matched record with quantity text count
StockOf(count) ==
    IF count = GT10 THEN Over10Stock
    ELSE IF count = ONE THEN 0
    ELSE ParseInt(count)

\* one pass of the first loop of create_stocks over one record; acc is
\* [stocks, offer_ids, raised]; nothing more happens once int() has raised
StocksStep(acc, watch) ==
    IF acc.raised \/ ~In(watch.Kod, acc.offer_ids) THEN acc
    ELSE IF watch.Kolichestvo # GT10 /\ watch.Kolichestvo # ONE
            /\ ~IsIntLiteral(watch.Kolichestvo)
         THEN [acc EXCEPT !.raised = TRUE]
         ELSE [acc EXCEPT
                 !.stocks = Append(@, [offer_id |-> watch.Kod,
                                       stock |-> StockOf(watch.Kolichestvo)]),
                 !.offer_ids = Remove(@, watch.Kod)]

\* the first loop of create_stocks over records lo..hi, in order: the passes
\* over lo..mid, then, unless int() raised, the passes over mid+1..hi
RECURSIVE StocksLoop(_, _, _, _)
StocksLoop(acc, recs, lo, hi) ==
    IF lo > hi THEN acc
    ELSE IF lo = hi THEN StocksStep(acc, recs[lo])
    ELSE LET mid == (lo + hi) \div 2
             left == StocksLoop(acc, recs, lo, mid)
         IN  IF left.raised THEN left ELSE StocksLoop(left, recs, mid + 1, hi)

\* mutant of Missing: the second loop skips the first id left
MissingSkipsFirst(ids) ==
    [i \in 1..(Len(ids) - 1) |-> [offer_id |-> ids[i + 1], stock |-> 0]]

\* the second loop of create_stocks: a zero stock for every id left
Missing(ids) == [i \in 1..Len(ids) |-> [offer_id |-> ids[i], stock |-> 0]]

\* create_stocks(watch_remnants, offer_ids): the list returned, the known-id
\* list as the call leaves it, and whether the call raised ValueError
create_stocks(recs, ids) ==
    LET acc == StocksLoop([stocks |-> <<>>, offer_ids |-> ids, raised |-> FALSE],
                          recs, 1, Len(recs))
    IN  IF acc.raised
        THEN acc
        ELSE [acc EXCEPT !.stocks = @ \o Missing(acc.offer_ids)]

PriceEntry(watch) ==
    [auto_action_enabled |-> "UNKNOWN",
     currency_code |-> "RUB",
     offer_id |-> watch.Kod,
     old_price |-> "0",
     price |-> price_conversion(watch.Tsena)]

\* create_prices(watch_remnants, offer_ids): one entry appended for every
\* record whose code is in offer_ids, in the order of the records
create_prices(recs, ids) ==
    LET matched == SelectSeq(recs, LAMBDA watch : In(watch.Kod, ids))
    IN  [i \in 1..Len(matched) |-> PriceEntry(matched[i])]

-----------------------------------------------------------------------------
(* The chunker *)

\* mutant of RangeLen: the last, shorter slice is dropped
RangeLenFloor(length, step) == length \div step

\* len(range(0, length, step)) for step > 0
RangeLen(length, step) == (length + step - 1) \div step

\* list(divide(lst, n)) for n > 0
divide(s, size) ==
    [k \in 1..RangeLen(Len(s), size) |-> Slice(s, (k - 1) * size, (k - 1) * size + size)]

-----------------------------------------------------------------------------
(* Values shared by the specifications *)

NoFailure == "none"
NoRequest == [last_id |-> -1, limit |-> 0]
EmptyCursor == 0    \* last_id = ""
NoCatalogue == [n |-> 0, m |-> 0]
NoOstatki == [shape |-> "empty", n |-> 0]

\* the value a harness call returned, or that it raised
Returned(v) == [raised |-> FALSE, value |-> v]
Raised == [raised |-> TRUE, value |-> <<>>]

-----------------------------------------------------------------------------
(* Harness of the pure functions: the inputs are drawn from bounded sets   *)
(* and the function is called twice on the same arguments.                 *)

KnownUniverse == {1, 2, 3}
Codes == {1, 2, 4}

PriceWithKopecks == <<"5", "'", "9", "9", "0", ".", "0", "0", " ", "r", "u", "b", ".">>
PriceWhole == <<"7", "8", "9", " ", "r", "u", "b">>

Payloads ==
    { <<GT10, PriceWithKopecks>>,
      <<ONE, PriceWhole>>,
      <<(<<"1", "2">>), PriceWithKopecks>>,
      <<(<<"-", "3">>), PriceWhole>>,
      <<(<<"x">>), PriceWhole>> }

Watches ==
    { [Kod |-> c, Kolichestvo |-> p[1], Tsena |-> p[2]] : c \in Codes, p \in Payloads }

SeqsUpTo(S, k) == UNION { [1..j -> S] : j \in 0..k }

RecordLists == SeqsUpTo(Watches, MaxRecords)
IdLists == SeqsUpTo(KnownUniverse, Cardinality(KnownUniverse))
DivideLists == { [i \in 1..k |-> i] : k \in 0..MaxDivideLen }

InitPure ==
    /\ pc = "harness"
    /\ \/ /\ entry \in {"create_stocks", "create_prices"}
          /\ watch_remnants \in RecordLists
          /\ lst \in IdLists
          /\ n = 1
       \/ /\ entry = "divide"
          /\ watch_remnants = <<>>
          /\ lst \in DivideLists
          /\ n \in 1..MaxN
    /\ offer_ids = lst
    /\ results = <<>>
    /\ catalogue = NoCatalogue
    /\ ostatki = NoOstatki
    /\ last_id = 0
    /\ product_list = <<>>
    /\ total = 0
    /\ request = NoRequest
    /\ stocks = <<>>
    /\ prices = <<>>
    /\ chunks = <<>>
    /\ calls = <<>>
    /\ failure = NoFailure
    /\ printed = "none"

HarnessUnchanged ==
    UNCHANGED <<entry, pc, catalogue, ostatki, last_id, product_list, total,
                request, watch_remnants, stocks, prices, chunks, calls, failure,
                printed, lst, n>>

\* stocks = create_stocks(watch_remnants, offer_ids)
CallCreateStocks ==
    /\ pc = "harness" /\ entry = "create_stocks" /\ Len(results) < 2
    /\ LET r == create_stocks(watch_remnants, offer_ids)
       IN  /\ results' = Append(results, IF r.raised THEN Raised ELSE Returned(r.stocks))
           /\ offer_ids' = r.offer_ids
    /\ HarnessUnchanged

\* prices = create_prices(watch_remnants, offer_ids)
CallCreatePrices ==
    /\ pc = "harness" /\ entry = "create_prices" /\ Len(results) < 2
    /\ results' = Append(results, Returned(create_prices(watch_remnants, offer_ids)))
    /\ offer_ids' = offer_ids
    /\ HarnessUnchanged

\* list(divide(lst, n))
CallDivide ==
    /\ pc = "harness" /\ entry = "divide" /\ Len(results) < 2
    /\ results' = Append(results, Returned(divide(lst, n)))
    /\ offer_ids' = offer_ids
    /\ HarnessUnchanged

NextPure == CallCreateStocks \/ CallCreatePrices \/ CallDivide

SpecPure == InitPure /\ [][NextPure]_vars

-----------------------------------------------------------------------------
(* The collaborators: the marketplace and the supplier's file *)

\* the items the marketplace lists, in listing order: products 1..n, the
\* listing repeated m times
Feed(cat) == [i \in 1..(cat.n * cat.m) |-> [offer_id |-> ((i - 1) % cat.n) + 1]]

\* the first item served for a cursor: a cursor is the position of the next item
PageStart(cursor) == IF cursor = EmptyCursor THEN 1 ELSE cursor

\* the page lengths the marketplace may answer with when rem items are left:
\* never more than the limit asked for, and at least one item while any is left
PageLens(rem, limit) ==
    IF rem <= 0 THEN {0}
    ELSE IF rem <= MaxShortFeed THEN 1..Min(rem, limit)
    ELSE {Min(rem, limit)}

\* the totals the marketplace may report for a listing of length len: its
\* length, or one less when a product listed earlier has been removed since
Totals(len) == {t \in {len - 1, len} : t >= 0}

\* row i of the supplier's file, for product code c
Row(c, i) ==
    [Kod |-> c,
     Kolichestvo |-> CASE i % 3 = 1 -> GT10 [] i % 3 = 2 -> ONE [] OTHER -> <<"1", "2">>,
     Tsena |-> IF i % 2 = 1 THEN PriceWithKopecks ELSE PriceWhole]

\* the rows of ostatki.xls
Rows(o) ==
    CASE o.shape = "empty" -> <<>>
      [] o.shape = "one_per_id" -> [i \in 1..o.n |-> Row(i, i)]
      [] o.shape = "unknown_first" -> <<Row(0, 1)>> \o [i \in 1..o.n |-> Row(i, i)]
      [] o.shape = "bad_quantity" ->
            [i \in 1..o.n |-> IF i = o.n THEN [Row(i, i) EXCEPT !.Kolichestvo = <<"x">>]
                                         ELSE Row(i, i)]
      [] o.shape = "twice" -> [i \in 1..(2 * o.n) |-> Row(((i - 1) % o.n) + 1, i)]

Shapes == {"empty", "one_per_id", "unknown_first", "bad_quantity", "twice"}

SmallScenarios ==
    { [entry |-> e, catalogue |-> [n |-> cn, m |-> cm], ostatki |-> [shape |-> sh, n |-> on]] :
        e \in {"main", "upload_stocks", "upload_prices"},
        cn \in 0..MaxShortFeed, cm \in {1, 2}, sh \in Shapes, on \in 1..MaxShortFeed }

\* catalogues whose update lists need more than one chunk
Big(e, cn, cm, sh) ==
    [entry |-> e, catalogue |-> [n |-> cn, m |-> cm], ostatki |-> [shape |-> sh, n |-> cn]]

BigScenarios ==
    { Big("main", StockChunk + 1, 1, "one_per_id"),
      Big("main", 2 * StockChunk, 1, "bad_quantity"),
      Big("main", MainPriceChunk + 1, 2, "one_per_id"),
      Big("upload_stocks", StockChunk, 1, "one_per_id"),
      Big("upload_stocks", 2 * StockChunk + 1, 1, "unknown_first"),
      Big("upload_prices", PriceChunk, 1, "one_per_id"),
      Big("upload_prices", PriceChunk + 1, 1, "one_per_id") }

Scenarios == SmallScenarios \cup BigScenarios

-----------------------------------------------------------------------------
(* The driver and the upload functions *)

TransportErrors == {"ReadTimeout", "ConnectionError", "HTTPError"}

\* one marketplace update call, with its outcome
Call(op, payload, ok) == [op |-> op, payload |-> payload, ok |-> ok]

\* what the except clauses of main print for exception e
Handler(e) ==
    IF e = "ReadTimeout" THEN "timeout"
    ELSE IF e = "ConnectionError" THEN "connection error"
    ELSE "ERROR_2"

\* mutant of Fail: the failure of a step is skipped and the run goes on
FailSkip(e) ==
    /\ failure' = e
    /\ pc' = pc
    /\ printed' = printed

\* a step raises e: main catches it, prints and returns; the other functions
\* let it propagate
Fail(e) ==
    /\ failure' = e
    /\ pc' = IF entry = "main" THEN "Error" ELSE "Raised"
    /\ printed' = IF entry = "main" THEN Handler(e) ELSE printed

\* where the run goes once get_offer_ids has returned
AfterFetch ==
    CASE entry = "main" -> "DownloadRemnants"
      [] entry = "upload_stocks" -> "ReconcileStock"
      [] entry = "upload_prices" -> "ReconcilePrice"
      [] OTHER -> "Done"

\* where the run goes once every stock chunk is sent
AfterStocks == IF entry = "main" THEN "ReconcilePrice" ELSE "Done"

\* not_empty of upload_stocks
NotEmpty(st) == SelectSeq(st, LAMBDA stock : stock.stock # 0)

\* the value the executed function returns (main returns None)
ReturnValue(st, pr, ids) ==
    CASE entry = "upload_stocks" -> <<Returned(<<NotEmpty(st), st>>)>>
      [] entry = "upload_prices" -> <<Returned(pr)>>
      [] entry = "get_offer_ids" -> <<Returned(ids)>>
      [] OTHER -> <<>>

InitRun(sc) ==
    /\ entry = sc.entry
    /\ catalogue = sc.catalogue
    /\ ostatki = sc.ostatki
    /\ pc = "FetchIds"
    /\ last_id = EmptyCursor
    /\ product_list = <<>>
    /\ total = 0
    /\ request = NoRequest
    /\ watch_remnants = IF sc.entry \in {"upload_stocks", "upload_prices"}
                        THEN Rows(sc.ostatki) ELSE <<>>
    /\ offer_ids = <<>>
    /\ stocks = <<>>
    /\ prices = <<>>
    /\ chunks = <<>>
    /\ calls = <<>>
    /\ failure = NoFailure
    /\ printed = "none"
    /\ lst = <<>>
    /\ n = 1
    /\ results = <<>>

Init == \E sc \in Scenarios : InitRun(sc)

\* get_product_list: the request is posted with the current cursor
RequestPage ==
    /\ pc = "FetchIds"
    /\ request' = [last_id |-> last_id, limit |-> PageLimit]
    /\ pc' = "AwaitPage"
    /\ UNCHANGED <<entry, catalogue, ostatki, last_id, product_list, total,
                   watch_remnants, offer_ids, stocks, prices, chunks, calls,
                   failure, printed, lst, n, results>>

\* the offer ids of the accumulated items
OfferIdsOf(products) == [i \in 1..Len(products) |-> products[i].offer_id]

\* the response arrives: one pass of the loop of get_offer_ids
PageResponse ==
    /\ pc = "AwaitPage"
    /\ LET feed == Feed(catalogue)
           start == PageStart(request.last_id)
       IN  \E k \in PageLens(Len(feed) - start + 1, request.limit), t \in Totals(Len(feed)) :
             /\ product_list' = product_list \o SubSeq(feed, start, start + k - 1)
             /\ total' = t
             /\ last_id' = start + k
             /\ request' = NoRequest
             /\ IF t = Len(product_list')
                THEN /\ offer_ids' = OfferIdsOf(product_list')
                     /\ pc' = AfterFetch
                ELSE /\ offer_ids' = offer_ids
                     /\ pc' = "FetchIds"
             /\ results' = IF pc' = "Done" THEN ReturnValue(stocks, prices, offer_ids')
                           ELSE results
    /\ UNCHANGED <<entry, catalogue, ostatki, watch_remnants, stocks, prices,
                   chunks, calls, failure, printed, lst, n>>

\* the request fails: raise_for_status or the transport raises
PageFailure ==
    /\ pc = "AwaitPage"
    /\ \E e \in TransportErrors : Fail(e)
    /\ request' = NoRequest
    /\ UNCHANGED <<entry, catalogue, ostatki, last_id, product_list, total,
                   watch_remnants, offer_ids, stocks, prices, chunks, calls,
                   lst, n, results>>

\* download_stock returns the rows of the file
DownloadStock ==
    /\ pc = "DownloadRemnants"
    /\ watch_remnants' = Rows(ostatki)
    /\ pc' = "ReconcileStock"
    /\ UNCHANGED <<entry, catalogue, ostatki, last_id, product_list, total,
                   request, offer_ids, stocks, prices, chunks, calls, failure,
                   printed, lst, n, results>>

\* download_stock raises: the download, the archive or the parse fails
DownloadFailure ==
    /\ pc = "DownloadRemnants"
    /\ \E e \in TransportErrors \cup {"BadZipFile"} : Fail(e)
    /\ UNCHANGED <<entry, catalogue, ostatki, last_id, product_list, total,
                   request, watch_remnants, offer_ids, stocks, prices, chunks,
                   calls, lst, n, results>>

\* stocks = create_stocks(watch_remnants, offer_ids); list(divide(stocks, 100))
ReconcileStock ==
    /\ pc = "ReconcileStock"
    /\ LET r == create_stocks(watch_remnants, offer_ids)
       IN  /\ offer_ids' = r.offer_ids
           /\ IF r.raised
              THEN /\ Fail("ValueError")
                   /\ UNCHANGED <<stocks, chunks, results>>
              ELSE /\ stocks' = r.stocks
                   /\ chunks' = divide(r.stocks, StockChunk)
                   /\ pc' = IF chunks' = <<>> THEN AfterStocks ELSE "UploadStock"
                   /\ results' = IF pc' = "Done" THEN ReturnValue(stocks', prices, offer_ids')
                                 ELSE results
                   /\ UNCHANGED <<failure, printed>>
    /\ UNCHANGED <<entry, catalogue, ostatki, last_id, product_list, total,
                   request, watch_remnants, prices, calls, lst, n>>

\* update_stocks(some_stock, ...) for the next chunk
UploadStockChunk ==
    /\ pc = "UploadStock"
    /\ \/ /\ calls' = Append(calls, Call("stocks", Head(chunks), TRUE))
          /\ chunks' = Tail(chunks)
          /\ pc' = IF chunks' = <<>> THEN AfterStocks ELSE pc
          /\ results' = IF pc' = "Done" THEN ReturnValue(stocks, prices, offer_ids)
                        ELSE results
          /\ UNCHANGED <<failure, printed>>
       \/ /\ calls' = Append(calls, Call("stocks", Head(chunks), FALSE))
          /\ \E e \in TransportErrors : Fail(e)
          /\ UNCHANGED <<chunks, results>>
    /\ UNCHANGED <<entry, catalogue, ostatki, last_id, product_list, total,
                   request, watch_remnants, offer_ids, stocks, prices, lst, n>>

\* the chunk size of the price upload
PriceChunkOf(e) == IF e = "main" THEN MainPriceChunk ELSE PriceChunk

\* prices = create_prices(watch_remnants, offer_ids); list(divide(prices, ...))
ReconcilePrice ==
    /\ pc = "ReconcilePrice"
    /\ prices' = create_prices(watch_remnants, offer_ids)
    /\ chunks' = divide(prices', PriceChunkOf(entry))
    /\ pc' = IF chunks' = <<>> THEN "Done" ELSE "UploadPrice"
    /\ results' = IF pc' = "Done" THEN ReturnValue(stocks, prices', offer_ids)
                  ELSE results
    /\ UNCHANGED <<entry, catalogue, ostatki, last_id, product_list, total,
                   request, watch_remnants, offer_ids, stocks, calls, failure,
                   printed, lst, n>>

\* update_price(some_price, ...) for the next chunk
UploadPriceChunk ==
    /\ pc = "UploadPrice"
    /\ \/ /\ calls' = Append(calls, Call("prices", Head(chunks), TRUE))
          /\ chunks' = Tail(chunks)
          /\ pc' = IF chunks' = <<>> THEN "Done" ELSE pc
          /\ results' = IF pc' = "Done" THEN ReturnValue(stocks, prices, offer_ids)
                        ELSE results
          /\ UNCHANGED <<failure, printed>>
       \/ /\ calls' = Append(calls, Call("prices", Head(chunks), FALSE))
          /\ \E e \in TransportErrors : Fail(e)
          /\ UNCHANGED <<chunks, results>>
    /\ UNCHANGED <<entry, catalogue, ostatki, last_id, product_list, total,
                   request, watch_remnants, offer_ids, stocks, prices, lst, n>>

Next ==
    \/ RequestPage
    \/ PageResponse
    \/ PageFailure
    \/ DownloadStock
    \/ DownloadFailure
    \/ ReconcileStock
    \/ UploadStockChunk
    \/ ReconcilePrice
    \/ UploadPriceChunk

Spec == Init /\ [][Next]_vars

-----------------------------------------------------------------------------
(* get_offer_ids alone, against a marketplace that always answers *)

FetchCatalogues ==
    { [n |-> cn, m |-> cm] : cn \in 0..MaxShortFeed, cm \in {1, 2} }
        \cup { [n |-> PageLimit, m |-> 1], [n |-> PageLimit + 1, m |-> 1] }

InitFetch ==
    \E cat \in FetchCatalogues :
        InitRun([entry |-> "get_offer_ids", catalogue |-> cat, ostatki |-> NoOstatki])

NextFetch == RequestPage \/ PageResponse \/ PageFailure

\* every request is answered, and the loop goes on as long as it can
SpecFetch == InitFetch /\ [][NextFetch]_vars /\ WF_vars(NextFetch)

-----------------------------------------------------------------------------
(* Properties of the pure functions, checked under SpecPure *)

\* the harness has called entry point f at least once and the first call returned
FirstReturned(f) == entry = f /\ Len(results) >= 1 /\ ~results[1].raised

\* the concatenation of a list of lists, in order
RECURSIVE Flatten(_)
Flatten(parts) == IF parts = <<>> THEN <<>> ELSE Head(parts) \o Flatten(Tail(parts))

\* C2: calling create_stocks (and create_prices) a second time with the same
\* records and the same known-id list that was passed to the first call yields
\* the same outcome as the first call.
C2_SecondCallEqualsFirst ==
    (entry \in {"create_stocks", "create_prices"} /\ Len(results) = 2)
        => results[2] = results[1]

\* C3: the list returned by create_prices holds no two entries with the same
\* offer_id, and every entry's offer_id is one of the known ids.
C3_PricesOnePerKnownId ==
    FirstReturned("create_prices") =>
        LET out == results[1].value
        IN  /\ \A i, j \in 1..Len(out) : out[i].offer_id = out[j].offer_id => i = j
            /\ \A i \in 1..Len(out) : In(out[i].offer_id, lst)

\* C4: every known id that no record carries appears in the list returned by
\* create_stocks as an entry {offer_id, stock: 0}.
C4_UnmatchedIdsGetZeroStock ==
    FirstReturned("create_stocks") =>
        \A i \in 1..Len(lst) :
            (\A k \in 1..Len(watch_remnants) : watch_remnants[k].Kod # lst[i])
                => In([offer_id |-> lst[i], stock |-> 0], results[1].value)

C4_Witness ==
    /\ FirstReturned("create_stocks")
    /\ lst = <<3, 1>>
    /\ watch_remnants = <<[Kod |-> 4, Kolichestvo |-> GT10, Tsena |-> PriceWithKopecks],
                          [Kod |-> 1, Kolichestvo |-> <<"1", "2">>, Tsena |-> PriceWithKopecks]>>
    /\ results[1].value = <<[offer_id |-> 1, stock |-> 12], [offer_id |-> 3, stock |-> 0]>>

\* C5: for a positive size n, divide(lst, n) yields consecutive slices whose
\* concatenation in order is lst; every slice but the last has exactly n
\* elements, the last has between 1 and n, and an empty lst yields no slice.
C5_DivideIsPartition ==
    FirstReturned("divide") =>
        LET parts == results[1].value
        IN  /\ Flatten(parts) = lst
            /\ \A k \in 1..(Len(parts) - 1) : Len(parts[k]) = n
            /\ parts # <<>> => Len(parts[Len(parts)]) \in 1..n
            /\ lst = <<>> => parts = <<>>

C5_Witness ==
    /\ FirstReturned("divide")
    /\ lst = <<1, 2, 3, 4, 5, 6, 7>>
    /\ n = 3
    /\ results[1].value = << <<1, 2, 3>>, <<4, 5, 6>>, <<7>> >>

\* C7: when every quantity expression is ">10" or an integer literal, every
\* entry of the list returned by create_stocks has a non-negative stock.
C7_StockNonNegative ==
    (/\ FirstReturned("create_stocks")
     /\ \A k \in 1..Len(watch_remnants) :
            \/ watch_remnants[k].Kolichestvo = GT10
            \/ IsIntLiteral(watch_remnants[k].Kolichestvo))
        => \A i \in 1..Len(results[1].value) : results[1].value[i].stock \in Nat

\* records that create_stocks matches: the code is a known id that no earlier
\* record has consumed (the known ids are distinct)
MatchedRecords == { i \in 1..Len(watch_remnants) :
                      /\ In(watch_remnants[i].Kod, lst)
                      /\ \A j \in 1..(i - 1) : watch_remnants[j].Kod # watch_remnants[i].Kod }

\* known ids that no record carries
UnmatchedIds == { i \in 1..Len(lst) :
                    \A k \in 1..Len(watch_remnants) : watch_remnants[k].Kod # lst[i] }

\* C10: for distinct known ids, create_stocks returns first one entry per
\* matched record, in the input order of the records, with stock 100 for ">10",
\* 0 for exactly "1" and the integer value otherwise, then one stock-0 entry for
\* each unmatched known id, in known-id order.
C10_StocksMatchedThenUnmatched ==
    (/\ FirstReturned("create_stocks")
     /\ \A i, j \in 1..Len(lst) : lst[i] = lst[j] => i = j)
        => LET out == results[1].value
               nm == Cardinality(MatchedRecords)
           IN  /\ Len(out) = nm + Cardinality(UnmatchedIds)
               /\ \A i \in MatchedRecords :
                    LET q == watch_remnants[i].Kolichestvo
                    IN  out[Cardinality({j \in MatchedRecords : j <= i})] =
                            [offer_id |-> watch_remnants[i].Kod,
                             stock |-> IF q = <<">", "1", "0">> THEN 100
                                       ELSE IF q = <<"1">> THEN 0
                                       ELSE ParseInt(q)]
               /\ \A i \in UnmatchedIds :
                    out[nm + Cardinality({j \in UnmatchedIds : j <= i})] =
                        [offer_id |-> lst[i], stock |-> 0]

C10_Witness ==
    /\ FirstReturned("create_stocks")
    /\ lst = <<1, 2, 3>>
    /\ watch_remnants = <<[Kod |-> 1, Kolichestvo |-> GT10, Tsena |-> PriceWithKopecks],
                          [Kod |-> 2, Kolichestvo |-> ONE, Tsena |-> PriceWhole]>>
    /\ results[1].value = <<[offer_id |-> 1, stock |-> 100],
                            [offer_id |-> 2, stock |-> 0],
                            [offer_id |-> 3, stock |-> 0]>>

-----------------------------------------------------------------------------
(* Properties of the runs, checked under Spec and SpecFetch *)

\* the payloads of the update calls to endpoint op, in call order
PayloadsOf(op) ==
    LET sent == SelectSeq(calls, LAMBDA c : c.op = op)
    IN  [i \in 1..Len(sent) |-> sent[i].payload]

\* C1: in a run of main in which every step succeeds, for every remnant record
\* whose code is among the offer ids returned by the fetch step, a price update
\* for that offer id is in the payloads sent to the price-update endpoint.
C1_PricesCoverFetchedIds ==
    (entry = "main" /\ pc = "Done") =>
        \A k \in 1..Len(watch_remnants) :
            In(watch_remnants[k].Kod, OfferIdsOf(product_list)) =>
                \E c \in 1..Len(calls) :
                    /\ calls[c].op = "prices"
                    /\ \E j \in 1..Len(calls[c].payload) :
                          calls[c].payload[j].offer_id = watch_remnants[k].Kod

\* the k-th of the consecutive slices of size elements of list
ChunkAt(list, size, k) == SubSeq(list, (k - 1) * size + 1, Min(k * size, Len(list)))

\* C6: the update calls are the chunks of the update list, one call per chunk
\* in chunk order (chunks of 100 stocks; of 900 prices in main and 1000 in
\* upload_prices); no stock call carries more than 100 entries and no price
\* call more than 1000; when all calls have succeeded every entry of the
\* update list has been sent in exactly one call.
C6_CallsAreTheChunks ==
    LET sp == PayloadsOf("stocks")
        pp == PayloadsOf("prices")
    IN  /\ \A k \in 1..Len(sp) :
              /\ Len(sp[k]) \in 1..100
              /\ sp[k] = ChunkAt(stocks, 100, k)
        /\ \A k \in 1..Len(pp) :
              /\ Len(pp[k]) \in 1..1000
              /\ pp[k] = ChunkAt(prices, IF entry = "main" THEN 900 ELSE 1000, k)
        /\ (pc \in {"ReconcilePrice", "UploadPrice", "Done"} /\ entry # "upload_prices")
              => Flatten(sp) = stocks
        /\ (pc = "Done" /\ entry # "upload_stocks") => Flatten(pp) = prices

C6_Witness ==
    /\ entry = "main"
    /\ pc = "Done"
    /\ Len(PayloadsOf("stocks")) >= 2
    /\ Len(PayloadsOf("prices")) >= 2
    /\ \A c \in 1..Len(calls) : calls[c].ok

\* C8: get_offer_ids terminates: whatever successful page responses the
\* marketplace returns, the loop eventually stops requesting pages.
C8_FetchTerminates == <>(pc \in {"Done", "Raised"})

\* a state of a run of main after the first failure of a step
C9_Failed ==
    /\ pc = "Error"
    /\ printed = Handler(failure)

=============================================================================
